---- MODULE Spec2Model ----
(***************************************************************************)
(* A model of the external-source-backed ReadableStream of                 *)
(* components/script/dom/readablestream.rs: the DOM stream object          *)
(* (ReadableStream), its ExternalUnderlyingSourceController (buffer,       *)
(* closed flag, one-shot finalizer) and the engine-side stream object the  *)
(* controller drives through the JSAPI calls made in that file.            *)
(*                                                                         *)
(* The engine's stream object is not part of the repository.  It is        *)
(* modelled at the boundary of the JSAPI calls the code makes: a state     *)
(* (readable / closed / errored), a reader lock, a disturbed flag, the     *)
(* number of pending read requests and the byte count the source last      *)
(* signalled as available and that was not yet written out.  The engine    *)
(* calls the underlying-source traps (request_data,                        *)
(* write_into_read_request_buffer, finalize) at any time the protocol      *)
(* allows.                                                                 *)
(***************************************************************************)
EXTENDS Integers, Sequences, FiniteSets, TLC

\* Total number of bytes ever handed to the controller (seed + enqueued).
MaxInput == 3
\* Largest desired_size the engine passes to request_data.
MaxDesired == 2
\* Largest number of read requests pending on the engine stream.
MaxPending == 2
\* Number of readers that may be acquired over the life of the stream.
MaxReaders == 2
\* Largest number of transmit tasks queued and not yet run.
MaxQueued == 2
\* Number of background threads on which the finalize trap may fire.
MaxThreads == 2
\* Number of chunks the stream that is teed delivers.
MaxChunks == 3
\* Largest number of reads of the teed stream issued and not completed.
MaxInFlight == 2

VARIABLES
    buffer,       \* ExternalUnderlyingSourceController.buffer
    closed,       \* ExternalUnderlyingSourceController.closed
    finalizer,    \* ExternalUnderlyingSourceController.finalizer is Some(..)
    tasks,        \* finalize tasks queued on the DOM manipulation task source
    has_reader,   \* ReadableStream.has_reader
    js_reader,    \* ReadableStream.js_reader: 0 is null, else the reader's id
    js,           \* the engine stream object behind ReadableStream.js_stream
    panic,        \* "none", or the panic that aborted the program
    input,        \* history: seed bytes followed by every enqueued chunk
    written,      \* history: concatenation of the chunks written out
    last,         \* history: the last operation, its arguments and effects
    read_started, \* history: who issued a read against the engine stream
    body,         \* body transmission and consumption (body.rs)
    fin,          \* the threads running the finalize trap
    tee           \* the tee of a stream (teereadrequest.rs)

\* The variables of the stream and its controller.
streamVars == <<buffer, closed, finalizer, tasks, has_reader, js_reader, js,
                panic, input, written, last, read_started>>

vars == <<buffer, closed, finalizer, tasks, has_reader, js_reader, js, panic,
          input, written, last, read_started, body, fin, tee>>

\* The code never inspects a byte, so each byte is named by the position at
\* which it entered the controller: the k-th byte handed in is k.  Any
\* reordering, loss or duplication of bytes is then visible in the values.
Bytes(from, n) == [i \in 1..n |-> from + i]

Min(a, b) == IF a < b THEN a ELSE b

\* enum ExternalUnderlyingSource
ExternalUnderlyingSource ==
    [tag : {"Memory"}, bytes : {Bytes(0, n) : n \in 0..MaxInput}, size : {0}]
    \cup [tag : {"Blob"}, bytes : {<<>>}, size : 0..MaxInput]
    \cup [tag : {"FetchResponse", "FetchRequest"}, bytes : {<<>>}, size : {0}]

\* ExternalUnderlyingSourceController::new: the initial buffer.
ControllerNewBuffer(source) ==
    IF source.tag = "Memory" THEN source.bytes ELSE <<>>

----------------------------------------------------------------------------
(* The engine stream object, at the JSAPI boundary. *)

JsStreamNew ==
    [state |-> "readable", locked |-> FALSE, script |-> FALSE,
     disturbed |-> FALSE, pending |-> 0, available |-> 0, closes |-> 0]

\* ReadableStreamIsReadable
ReadableStreamIsReadable(j) == j.state = "readable"

\* ReadableStreamIsLocked
ReadableStreamIsLocked(j) == j.locked

\* ReadableStreamIsDisturbed
ReadableStreamIsDisturbed(j) == j.disturbed

\* ReadableStreamClose: a readable stream becomes closed and its pending
\* reads resolve with done.  closes counts the calls (it saturates at 2).
ReadableStreamClose(j) ==
    IF j.state = "readable"
    THEN [j EXCEPT !.state = "closed", !.pending = 0,
                   !.closes = Min(j.closes + 1, 2)]
    ELSE [j EXCEPT !.closes = Min(j.closes + 1, 2)]

\* ReadableStreamError: a readable stream becomes errored; pending reads
\* are rejected.
ReadableStreamError(j) ==
    IF j.state = "readable"
    THEN [j EXCEPT !.state = "errored", !.pending = 0]
    ELSE j

\* ReadableStreamUpdateDataAvailableFromSource: a readable stream records
\* the count; a closed or errored one refuses it.
ReadableStreamUpdateDataAvailableFromSource(j, available) ==
    IF j.state = "readable" THEN [j EXCEPT !.available = available] ELSE j

\* ReadableStreamGetReader
ReadableStreamGetReader(j) == [j EXCEPT !.locked = TRUE]

\* ReadableStreamReaderReleaseLock: pending read requests are dropped.
ReadableStreamReaderReleaseLock(j) ==
    [j EXCEPT !.locked = FALSE, !.pending = 0]

\* ReadableStreamDefaultReaderRead: disturbs the stream; a readable stream
\* queues a read request, a closed one resolves with done, an errored one
\* rejects.
ReadableStreamDefaultReaderRead(j) ==
    IF j.state = "readable"
    THEN [j EXCEPT !.disturbed = TRUE, !.pending = j.pending + 1]
    ELSE [j EXCEPT !.disturbed = TRUE]

----------------------------------------------------------------------------
(* History record of the last operation. *)

NoSignal == -1

\* op: the operation; chunk: the bytes passed in (enqueue) or written out
\* (write); n: desired_size (pull), length (write) or the number of reads
\* issued against the engine stream (read_a_chunk and its callers); ok:
\* whether the ReadableStreamIsReadable query succeeded (close, pull) or
\* start_reading returned Ok (the body tasks); ret: "ok", "err", "panic" or
\* "rejected"; nbytes: bytes_written; sig: the count passed to
\* signal_available_bytes, NoSignal if none; closeCall: whether
\* ReadableStreamClose was called.
Op(op, chunk, n, ok, ret, nbytes, sig, closeCall) ==
    [op |-> op, chunk |-> chunk, n |-> n, ok |-> ok, ret |-> ret,
     nbytes |-> nbytes, sig |-> sig, closeCall |-> closeCall]

----------------------------------------------------------------------------
(* ExternalUnderlyingSourceController *)

\* signal_available_bytes
signal_available_bytes(j, available) ==
    ReadableStreamUpdateDataAvailableFromSource(j, available)

\* maybe_close_js_stream: ok is the success of the ReadableStreamIsReadable
\* query; the stream is closed only if the query succeeds and reports
\* readable.
maybe_close_js_stream_calls_unchecked(j, ok) == ok

maybe_close_js_stream_calls(j, ok) == ok /\ ReadableStreamIsReadable(j)

maybe_close_js_stream(j, ok) ==
    IF maybe_close_js_stream_calls(j, ok) THEN ReadableStreamClose(j) ELSE j

\* enqueue_chunk: the new buffer, [chunk, buffer].concat()
enqueue_chunk_buffer(buf, chunk) == chunk \o buf

\* pull: the count passed to signal_available_bytes
pull_signal(buf, desired_size) == desired_size

write_into_buffer_rest_stale(buf, length) == buf

\* write_into_buffer: buffer.split_at(buffer_len - length)
write_into_buffer_rest(buf, length) == SubSeq(buf, 1, Len(buf) - length)

write_into_buffer_chunk(buf, length) ==
    SubSeq(buf, Len(buf) - length + 1, Len(buf))

write_into_buffer_assert_strict(buf, length) == Len(buf) > length

\* write_into_buffer: assert!(buffer_len >= length)
write_into_buffer_assert(buf, length) == Len(buf) >= length

close_closed_toggle(c) == ~c

\* close: the value stored into the closed flag
close_closed(c) == TRUE

Running == panic = "none"

\* ReadableStream::enqueue_native -> enqueue_chunk
enqueue_native(chunk) ==
    /\ Running
    /\ Len(input) + Len(chunk) <= MaxInput
    /\ buffer' = enqueue_chunk_buffer(buffer, chunk)
    /\ js' = signal_available_bytes(js, Len(buffer'))
    /\ input' = input \o chunk
    /\ last' = Op("enqueue", chunk, 0, TRUE, "ok", 0, Len(buffer'), FALSE)
    /\ UNCHANGED <<closed, finalizer, tasks, has_reader, js_reader, panic,
                   written,
                   read_started>>

\* ReadableStream::close_native -> close
close_native(ok) ==
    /\ Running
    /\ closed' = close_closed(closed)
    /\ js' = maybe_close_js_stream(js, ok)
    /\ last' = Op("close", <<>>, 0, ok, "ok", 0, NoSignal,
                  maybe_close_js_stream_calls(js, ok))
    /\ UNCHANGED <<buffer, finalizer, tasks, has_reader, js_reader, panic,
                   input, written,
                   read_started>>

\* ReadableStream::error_native
error_native ==
    /\ Running
    /\ js' = ReadableStreamError(js)
    /\ last' = Op("error", <<>>, 0, TRUE, "ok", 0, NoSignal, FALSE)
    /\ UNCHANGED <<buffer, closed, finalizer, tasks, has_reader, js_reader,
                   panic, input, written,
                   read_started>>

pull_closed_ignored(c) == FALSE

\* pull: the test that makes pull return after maybe_close_js_stream
pull_closed(c) == c

pull_available_unchecked(buf) == TRUE

\* pull: available > 0, available being buffer.len()
pull_available(buf) == Len(buf) > 0

\* request_data trap -> pull
request_data(desired_size, ok) ==
    /\ Running
    /\ IF pull_closed(closed)
       THEN /\ js' = maybe_close_js_stream(js, ok)
            /\ last' = Op("pull", <<>>, desired_size, ok, "ok", 0, NoSignal,
                          maybe_close_js_stream_calls(js, ok))
       ELSE IF pull_available(buffer)
       THEN /\ js' = signal_available_bytes(js,
                        pull_signal(buffer, desired_size))
            /\ last' = Op("pull", <<>>, desired_size, ok, "ok", 0,
                          pull_signal(buffer, desired_size), FALSE)
       ELSE /\ js' = js
            /\ last' = Op("pull", <<>>, desired_size, ok, "ok", 0, NoSignal,
                          FALSE)
    /\ UNCHANGED <<buffer, closed, finalizer, tasks, has_reader, js_reader,
                   panic, input, written,
                   read_started>>

\* ExternalUnderlyingSourceController::write_into_buffer: the controller's
\* side of the call.
write_into_buffer(length) ==
    IF write_into_buffer_assert(buffer, length)
    THEN LET chunk == write_into_buffer_chunk(buffer, length)
         IN  /\ buffer' = write_into_buffer_rest(buffer, length)
             /\ written' = written \o chunk
             /\ last' = Op("write", chunk, length, TRUE, "ok", Len(chunk),
                           NoSignal, FALSE)
             /\ panic' = panic
    ELSE /\ panic' = "underflow"
         /\ last' = Op("write", <<>>, length, TRUE, "panic", 0, NoSignal,
                       FALSE)
         /\ UNCHANGED <<buffer, written>>

\* write_into_read_request_buffer trap -> write_into_buffer.  The engine
\* asks for at most the count signalled as available, to serve a pending
\* read request, and takes bytes_written off that count.
write_into_read_request_buffer(length) ==
    /\ Running
    /\ js.state = "readable"
    /\ js.pending > 0
    /\ length \in 1..js.available
    /\ write_into_buffer(length)
    /\ js' = IF panic' = "none"
             THEN [js EXCEPT !.available = js.available - last'.nbytes,
                             !.pending = js.pending - 1]
             ELSE js
    /\ UNCHANGED <<closed, finalizer, tasks, has_reader, js_reader, input,
                   read_started>>

----------------------------------------------------------------------------
(* ReadableStream *)

\* ReadableStream::is_locked
is_locked == has_reader \/ ReadableStreamIsLocked(js)

is_disturbed_native_only == has_reader

\* ReadableStream::is_disturbed
is_disturbed == has_reader \/ ReadableStreamIsDisturbed(js)

start_reading_refuses_disturbed_only == ReadableStreamIsDisturbed(js)

start_reading_refuses_locked_only == is_locked

\* start_reading: the refusal test
start_reading_refuses == is_locked \/ is_disturbed

\* ReadableStream::start_reading
start_reading ==
    /\ Running
    /\ IF start_reading_refuses
       THEN /\ last' = Op("start_reading", <<>>, 0, TRUE, "err", 0, NoSignal, FALSE)
            /\ UNCHANGED <<js, js_reader, has_reader>>
       ELSE /\ js_reader < MaxReaders
            /\ js' = ReadableStreamGetReader(js)
            /\ js_reader' = js_reader + 1
            /\ has_reader' = TRUE
            /\ last' = Op("start_reading", <<>>, 0, TRUE, "ok", 0, NoSignal, FALSE)
    /\ UNCHANGED <<buffer, closed, finalizer, tasks, panic, input, written,
                   read_started>>

read_a_chunk_panics_never == FALSE

\* read_a_chunk: the test that panics, if !self.has_reader.get()
read_a_chunk_panics == ~has_reader

\* ReadableStream::read_a_chunk
read_a_chunk ==
    /\ Running
    /\ IF read_a_chunk_panics
       THEN /\ panic' = "no_reader"
            /\ last' = Op("read_a_chunk", <<>>, 0, TRUE, "panic", 0, NoSignal,
                          FALSE)
            /\ UNCHANGED <<js, read_started>>
       ELSE /\ js.pending < MaxPending
            /\ js' = ReadableStreamDefaultReaderRead(js)
            /\ read_started' = read_started \cup {"native"}
            /\ last' = Op("read_a_chunk", <<>>, 1, TRUE, "ok", 0, NoSignal, FALSE)
            /\ panic' = panic
    /\ UNCHANGED <<buffer, closed, finalizer, tasks, has_reader, js_reader,
                   input, written>>

\* ReadableStream::stop_reading, on a stream that acquired a reader at
\* some point (js_reader is not null).
stop_reading ==
    /\ Running
    /\ js_reader # 0
    /\ has_reader' = FALSE
    /\ js' = IF js.script THEN js ELSE ReadableStreamReaderReleaseLock(js)
    /\ last' = Op("stop_reading", <<>>, 0, TRUE, "ok", 0, NoSignal, FALSE)
    /\ UNCHANGED <<buffer, closed, finalizer, tasks, js_reader, panic, input,
                   written,
                   read_started>>

\* Script acquires a reader on the stream (stream.getReader()).
script_get_reader ==
    /\ Running
    /\ ~js.locked
    /\ js' = [js EXCEPT !.locked = TRUE, !.script = TRUE]
    /\ last' = Op("script_get_reader", <<>>, 0, TRUE, "ok", 0, NoSignal, FALSE)
    /\ UNCHANGED <<buffer, closed, finalizer, tasks, has_reader, js_reader,
                   panic, input, written,
                   read_started>>

\* Script releases its reader (reader.releaseLock()).
script_release_lock ==
    /\ Running
    /\ js.script
    /\ js' = [js EXCEPT !.locked = FALSE, !.script = FALSE, !.pending = 0]
    /\ last' = Op("script_release_lock", <<>>, 0, TRUE, "ok", 0, NoSignal, FALSE)
    /\ UNCHANGED <<buffer, closed, finalizer, tasks, has_reader, js_reader,
                   panic, input, written,
                   read_started>>

\* Script reads through its reader (reader.read()): the engine performs
\* the same read as ReadableStreamDefaultReaderRead.
script_read ==
    /\ Running
    /\ js.script
    /\ js.pending < MaxPending
    /\ js' = ReadableStreamDefaultReaderRead(js)
    /\ read_started' = read_started \cup {"script"}
    /\ last' = Op("script_read", <<>>, 1, TRUE, "ok", 0, NoSignal, FALSE)
    /\ UNCHANGED <<buffer, closed, finalizer, tasks, has_reader, js_reader,
                   panic, input, written>>

----------------------------------------------------------------------------
(* StreamFinalizer *)

\* finalize trap -> ExternalUnderlyingSourceController::finalize ->
\* StreamFinalizer::finalize: take the finalizer and queue the task.
finalize ==
    /\ Running
    /\ IF finalizer
       THEN /\ finalizer' = FALSE
            /\ tasks' = tasks + 1
            /\ last' = Op("finalize", <<>>, 0, TRUE, "ok", 0, NoSignal, FALSE)
            /\ panic' = panic
       ELSE /\ panic' = "no_finalizer"
            /\ last' = Op("finalize", <<>>, 0, TRUE, "panic", 0, NoSignal, FALSE)
            /\ UNCHANGED <<finalizer, tasks>>
    /\ UNCHANGED <<buffer, closed, has_reader, js_reader, js, input, written,
                   read_started>>

----------------------------------------------------------------------------
(* The state outside the stream, as it is before any body is transmitted or
   consumed, any finalize trap has run and any tee was pulled. *)

\* connected: bytes_sender is Some; queued: the transmit tasks queued on the
\* networking task source; reads: the read promises the body code holds a
\* handler on, in the order the reads were issued; promise: the result
\* promise of consume_body; bytes: ConsumeBodyPromiseHandler.bytes; issued:
\* history, the paths that issued a read; got: history, the values the
\* reads of the consume path resolved with, in the order they resolved.
BodyNew ==
    [connected |-> FALSE, queued |-> 0, reads |-> <<>>, promise |-> "none",
     bytes |-> <<>>, issued |-> {}, got |-> <<>>]

\* The background threads the engine may call the finalize trap on.
Threads == 1..MaxThreads

\* pc: where each thread is in the finalize trap; holder: the thread
\* holding the finalizer mutex, 0 if none; got: what take() returned to the
\* thread (Some or None); sent: history, the teardown tasks ever queued;
\* ran: history, the teardown tasks run on the owning thread.
FinNew ==
    [pc |-> [t \in Threads |-> "idle"], holder |-> 0,
     got |-> [t \in Threads |-> FALSE], sent |-> 0, ran |-> 0]

\* A branch of the tee: the state of its stream and the chunks enqueued
\* into its controller.
BranchNew == [state |-> "readable", queue |-> <<>>]

\* TeeReadRequest and the streams around it.  reads: the reads of the teed
\* stream issued and not yet resolved; micro: the chunks of resolved reads
\* whose chunk steps are queued as microtasks; up: the state of the teed
\* stream; next: the next chunk it delivers; log: the calls and the flag
\* writes of the step that is running, in the order they are made;
\* resolves: history, the calls that resolved cancel_promise (it saturates
\* at 2).
TeeNew(clone) ==
    [reading |-> FALSE, read_again |-> FALSE, canceled_1 |-> FALSE,
     canceled_2 |-> FALSE, clone_for_branch_2 |-> clone,
     cancel_promise |-> "pending", reads |-> 0, micro |-> <<>>,
     up |-> "readable", next |-> 1, b1 |-> BranchNew, b2 |-> BranchNew,
     log |-> <<>>, resolves |-> 0]

----------------------------------------------------------------------------

\* ReadableStream::new_with_external_underlying_source
InitStream ==
    \E source \in ExternalUnderlyingSource :
        /\ buffer = ControllerNewBuffer(source)
        /\ closed = FALSE
        /\ finalizer = TRUE
        /\ tasks = 0
        /\ has_reader = FALSE
        /\ js_reader = 0
        /\ js = JsStreamNew
        /\ panic = "none"
        /\ input = buffer
        /\ written = <<>>
        /\ last = Op("new", buffer, 0, TRUE, "ok", 0, NoSignal, FALSE)
        /\ read_started = {}
        /\ body = BodyNew
        /\ fin = FinNew

Init == InitStream /\ tee = TeeNew(FALSE)

\* The chunks a producer may enqueue next: the next 1..MaxInput bytes.
Chunks == {Bytes(Len(input), n) : n \in 1..MaxInput}

\* A step of the stream leaves the rest alone.
StreamOnly == UNCHANGED <<body, fin, tee>>

Next ==
    \/ \E chunk \in Chunks : enqueue_native(chunk) /\ StreamOnly
    \/ \E ok \in BOOLEAN : close_native(ok) /\ StreamOnly
    \/ error_native /\ StreamOnly
    \/ \E d \in 0..MaxDesired, ok \in BOOLEAN :
           request_data(d, ok) /\ StreamOnly
    \/ \E length \in 1..(MaxInput + MaxDesired) :
           write_into_read_request_buffer(length) /\ StreamOnly
    \/ start_reading /\ StreamOnly
    \/ read_a_chunk /\ StreamOnly
    \/ stop_reading /\ StreamOnly
    \/ script_get_reader /\ StreamOnly
    \/ script_release_lock /\ StreamOnly
    \/ finalize /\ StreamOnly

Spec == Init /\ [][Next]_vars

----------------------------------------------------------------------------
(* The controller's buffer on its own: a run of enqueue_chunk calls
   followed by write_into_buffer calls of any lengths. *)

drain_enqueue(chunk) ==
    /\ written = <<>>
    /\ enqueue_native(chunk)

drain_write(length) ==
    /\ Running
    /\ write_into_buffer(length)
    /\ UNCHANGED <<closed, finalizer, tasks, has_reader, js_reader, js,
                   input,
                   read_started>>

NextDrain ==
    \/ \E chunk \in Chunks : drain_enqueue(chunk) /\ StreamOnly
    \/ \E length \in 0..(MaxInput + 1) : drain_write(length) /\ StreamOnly

SpecDrain == Init /\ [][NextDrain]_vars

----------------------------------------------------------------------------
(* Delivery from a producer to a native reader: the producer enqueues
   chunks and then closes, once; the consumer acquires the reader and keeps
   reading, one read at a time; the engine calls the traps.  The owning
   thread is scheduled fairly: a step of the producer, of the consumer or
   of the engine that stays possible is taken. *)

\* The producer enqueues while it has not closed.
deliver_enqueue(chunk) == ~closed /\ enqueue_native(chunk)

\* The producer closes, once.
deliver_close == ~closed /\ close_native(TRUE)

\* The consumer reads when no read of its own is pending.
deliver_read == has_reader /\ js.pending = 0 /\ read_a_chunk

\* The consumer's read found the stream closed: it resolves with done.
ObservedDone ==
    last.op = "read_a_chunk" /\ last.ret = "ok" /\ js.state = "closed"

NextDeliver ==
    \/ \E chunk \in Chunks : deliver_enqueue(chunk) /\ StreamOnly
    \/ deliver_close /\ StreamOnly
    \/ start_reading /\ StreamOnly
    \/ deliver_read /\ StreamOnly
    \/ \E d \in 0..MaxDesired, ok \in BOOLEAN :
           request_data(d, ok) /\ StreamOnly
    \/ \E length \in 1..(MaxInput + MaxDesired) :
           write_into_read_request_buffer(length) /\ StreamOnly

SpecDeliver ==
    /\ Init
    /\ [][NextDeliver]_vars
    /\ WF_vars(deliver_close /\ StreamOnly)
    /\ WF_vars(start_reading /\ StreamOnly)
    /\ WF_vars(deliver_read /\ StreamOnly)
    /\ \A d \in 0..MaxDesired :
           SF_vars(request_data(d, TRUE) /\ StreamOnly)
    /\ SF_vars(\E length \in 1..(MaxInput + MaxDesired) :
                  write_into_read_request_buffer(length) /\ StreamOnly)

----------------------------------------------------------------------------
(* The reader protocol: native and script readers on a stream whose bytes
   all come from the seed of its source, read out by the engine's traps. *)

NextReader ==
    \/ start_reading /\ StreamOnly
    \/ read_a_chunk /\ StreamOnly
    \/ stop_reading /\ StreamOnly
    \/ script_get_reader /\ StreamOnly
    \/ script_read /\ StreamOnly
    \/ script_release_lock /\ StreamOnly
    \/ \E ok \in BOOLEAN : close_native(ok) /\ StreamOnly
    \/ error_native /\ StreamOnly
    \/ \E d \in 0..MaxDesired, ok \in BOOLEAN :
           request_data(d, ok) /\ StreamOnly
    \/ \E length \in 1..(MaxInput + MaxDesired) :
           write_into_read_request_buffer(length) /\ StreamOnly

SpecReader == Init /\ [][NextReader]_vars

----------------------------------------------------------------------------
(* body.rs: transmitting a body over fetch and consuming it in script, both
   reading the stream of one ExtractedBody. *)

\* The promise returned by read_a_chunk on engine stream j, with the
\* handlers of path attached: pending on a readable stream, resolved with
\* done on a closed one, rejected on an errored one.
ReadPromise(path, j) ==
    [path |-> path,
     res  |-> IF j.state = "readable" THEN "pending"
              ELSE IF j.state = "closed" THEN "done" ELSE "error",
     val  |-> <<>>]

\* The first pending read resolves with chunk.
SettleFirst(reads, chunk) ==
    LET pending == {i \in DOMAIN reads : reads[i].res = "pending"}
    IN  IF pending = {} THEN reads
        ELSE LET first == CHOOSE i \in pending : \A k \in pending : i <= k
             IN  [reads EXCEPT ![first] = [@ EXCEPT !.res = "chunk",
                                                    !.val = chunk]]

\* The path that issued the first pending read, "none" if no read is
\* pending.
FirstPendingPath(reads) ==
    LET pending == {i \in DOMAIN reads : reads[i].res = "pending"}
    IN  IF pending = {} THEN "none"
        ELSE reads[CHOOSE i \in pending : \A k \in pending : i <= k].path

\* The concatenation of the values vals, in their order.
RECURSIVE Concat(_)
Concat(vals) ==
    IF vals = <<>> THEN <<>> ELSE Head(vals) \o Concat(Tail(vals))

\* Every pending read settles with res.
SettleAll(reads, res) ==
    [i \in DOMAIN reads |->
        IF reads[i].res = "pending"
        THEN [reads[i] EXCEPT !.res = res] ELSE reads[i]]

\* The reads still outstanding: issued and not yet resolved.
Outstanding(reads) == {i \in DOMAIN reads : reads[i].res = "pending"}

\* A read promise has settled and its handler has not run yet: promise
\* reactions run before the next task.
Settled == body.reads # <<>> /\ Head(body.reads).res # "pending"

\* The engine settles the pending read promises as a step of the stream
\* closes it, errors it or writes a chunk out.
engine_settles ==
    body' = [body EXCEPT !.reads =
                IF js.state = "readable" /\ js'.state = "closed"
                THEN SettleAll(@, "done")
                ELSE IF js.state = "readable" /\ js'.state = "errored"
                THEN SettleAll(@, "error")
                ELSE IF js'.pending < js.pending
                THEN SettleFirst(@, last'.chunk)
                ELSE @,
                         !.got =
                IF /\ js.state = "readable"
                   /\ js'.state = "readable"
                   /\ js'.pending < js.pending
                   /\ FirstPendingPath(body.reads) = "consume"
                THEN Append(@, last'.chunk)
                ELSE @]

\* BodyOperations::get_body_used of the object holding the stream: its
\* body was read from.
get_body_used == is_disturbed

\* BodyOperations::is_locked of the object holding the stream.
body_is_locked == is_locked

consume_body_refuses_never == FALSE

\* consume_body, step 1: object.get_body_used() || object.is_locked()
consume_body_refuses == get_body_used \/ body_is_locked

\* stream.start_reading(); stream.read_a_chunk(), the result of
\* start_reading dropped, as transmit_body_chunk's task and
\* consume_body_with_promise call them.  b is the body state the caller
\* leaves; the read promise gets the handlers of path.
start_reading_then_read_a_chunk(op, path, b) ==
    LET refused == start_reading_refuses
        reader  == IF refused THEN has_reader ELSE TRUE
        j       == IF refused THEN js ELSE ReadableStreamGetReader(js)
    IN  /\ ~refused => js_reader < MaxReaders
        /\ has_reader' = reader
        /\ js_reader' = IF refused THEN js_reader ELSE js_reader + 1
        /\ IF ~reader
           THEN /\ panic' = "no_reader"
                /\ js' = j
                /\ read_started' = read_started
                /\ body' = b
                /\ last' = Op(op, <<>>, 0, ~refused, "panic", 0, NoSignal,
                              FALSE)
           ELSE /\ j.pending < MaxPending
                /\ js' = ReadableStreamDefaultReaderRead(j)
                /\ read_started' = read_started \cup {"native"}
                /\ panic' = panic
                /\ body' = [b EXCEPT
                              !.reads = Append(@, ReadPromise(path, j)),
                              !.issued = @ \cup {path}]
                /\ last' = Op(op, <<>>, 1, ~refused, "ok", 0, NoSignal,
                              FALSE)
        /\ UNCHANGED <<buffer, closed, finalizer, tasks, input, written>>

\* BodyChunkRequest::Connect
Connect ==
    /\ Running
    /\ ~body.connected
    /\ body' = [body EXCEPT !.connected = TRUE]
    /\ last' = Op("Connect", <<>>, 0, TRUE, "ok", 0, NoSignal, FALSE)
    /\ UNCHANGED <<buffer, closed, finalizer, tasks, has_reader, js_reader,
                   js, panic, input, written, read_started>>

\* BodyChunkRequest::Chunk -> transmit_body_chunk: queue the task.
transmit_body_chunk ==
    /\ Running
    /\ body.queued < MaxQueued
    /\ IF body.connected
       THEN /\ body' = [body EXCEPT !.queued = @ + 1]
            /\ last' = Op("Chunk", <<>>, 0, TRUE, "ok", 0, NoSignal, FALSE)
            /\ panic' = panic
       ELSE /\ panic' = "no_sender"
            /\ last' = Op("Chunk", <<>>, 0, TRUE, "panic", 0, NoSignal, FALSE)
            /\ body' = body
    /\ UNCHANGED <<buffer, closed, finalizer, tasks, has_reader, js_reader,
                   js, input, written, read_started>>

\* The task queued by transmit_body_chunk.
setup_native_body_promise_handler ==
    /\ Running
    /\ ~Settled
    /\ body.queued > 0
    /\ start_reading_then_read_a_chunk("transmit_task", "transmit",
           [body EXCEPT !.queued = @ - 1])

\* consume_body -> consume_body_with_promise
consume_body ==
    /\ Running
    /\ ~Settled
    /\ IF consume_body_refuses
       THEN /\ last' = Op("consume_body", <<>>, 0, FALSE, "rejected", 0,
                          NoSignal, FALSE)
            /\ UNCHANGED <<buffer, closed, finalizer, tasks, has_reader,
                           js_reader, js, panic, input, written,
                           read_started, body>>
       ELSE start_reading_then_read_a_chunk("consume_body", "consume",
                [body EXCEPT !.promise = "pending", !.bytes = <<>>])

\* TransmitBodyPromiseHandler::callback and
\* TransmitBodyPromiseRejectionHandler::callback, on the settled read r.
TransmitBodyPromiseHandler(r) ==
    IF r.res = "chunk"
    THEN /\ body' = [body EXCEPT !.reads = Tail(@)]
         /\ last' = Op("transmit_chunk", r.val, 0, TRUE, "ok", 0, NoSignal,
                       FALSE)
         /\ UNCHANGED <<buffer, closed, finalizer, tasks, has_reader,
                        js_reader, js, panic, input, written, read_started>>
    ELSE /\ stop_reading
         /\ body' = [body EXCEPT !.reads = SettleAll(Tail(@), "error")]

extend_from_slice_front(bytes, chunk) == chunk \o bytes

\* bytes.extend_from_slice(&*chunk)
extend_from_slice(bytes, chunk) == bytes \o chunk

\* ConsumeBodyPromiseHandler::callback and
\* ConsumeBodyPromiseRejectionHandler::callback, on the settled read r.
ConsumeBodyPromiseHandler(r) ==
    IF r.res = "chunk"
    THEN /\ read_a_chunk
         /\ body' = [body EXCEPT
                        !.bytes = extend_from_slice(@, r.val),
                        !.reads = IF panic' = "none"
                                  THEN Append(Tail(@),
                                              ReadPromise("consume", js))
                                  ELSE Tail(@)]
    ELSE /\ body' = [body EXCEPT
                        !.reads = Tail(@),
                        !.promise = IF r.res = "done" THEN "resolved"
                                    ELSE "rejected"]
         /\ last' = Op("consume_settled", body.bytes, 0, r.res = "done",
                       "ok", 0, NoSignal, FALSE)
         /\ UNCHANGED <<buffer, closed, finalizer, tasks, has_reader,
                        js_reader, js, panic, input, written, read_started>>

\* The handler of the first settled read promise runs.
promise_callback ==
    /\ Running
    /\ Settled
    /\ IF Head(body.reads).path = "transmit"
       THEN TransmitBodyPromiseHandler(Head(body.reads))
       ELSE ConsumeBodyPromiseHandler(Head(body.reads))

\* A step that leaves the stream alone.
BodyOnly == UNCHANGED <<fin, tee>>

\* A task of the stream's producer or a trap call of the engine: it runs
\* once the settled promises' handlers have run, and the engine settles
\* the reads it serves.
StreamTask == ~Settled /\ engine_settles /\ UNCHANGED <<fin, tee>>

NextBody ==
    \/ \E chunk \in Chunks : enqueue_native(chunk) /\ StreamTask
    \/ \E ok \in BOOLEAN : close_native(ok) /\ StreamTask
    \/ error_native /\ StreamTask
    \/ \E d \in 0..MaxDesired, ok \in BOOLEAN :
           request_data(d, ok) /\ StreamTask
    \/ \E length \in 1..(MaxInput + MaxDesired) :
           write_into_read_request_buffer(length) /\ StreamTask
    \/ Connect /\ BodyOnly
    \/ transmit_body_chunk /\ BodyOnly
    \/ setup_native_body_promise_handler /\ BodyOnly
    \/ consume_body /\ BodyOnly
    \/ promise_callback /\ BodyOnly

SpecBody == Init /\ [][NextBody]_vars

----------------------------------------------------------------------------
(* The finalize trap on background threads.
   ExternalUnderlyingSourceController::finalize is one statement,
   self.finalizer.lock().unwrap().take().expect(..).finalize(): the guard
   returned by lock() lives to the end of the statement, so the mutex is
   held over take, expect and StreamFinalizer::finalize. *)

mutex_free_always(holder) == TRUE

\* Mutex::lock returns once no thread holds the mutex.
mutex_free(holder) == holder = 0

take_keeps(f) == f

\* Option::take leaves None behind.
take_leaves(f) == FALSE

\* A step of a background thread: the owning thread's state is not its
\* to touch.
OffThread ==
    UNCHANGED <<buffer, closed, has_reader, js_reader, js, input, written,
                last, read_started, body, tee>>

\* The engine calls the finalize trap on thread t.
finalize_trap(t) ==
    /\ Running
    /\ fin.pc[t] = "idle"
    /\ fin' = [fin EXCEPT !.pc[t] = "lock"]
    /\ UNCHANGED <<finalizer, tasks, panic>>
    /\ OffThread

\* self.finalizer.lock().unwrap()
finalizer_lock(t) ==
    /\ Running
    /\ fin.pc[t] = "lock"
    /\ mutex_free(fin.holder)
    /\ fin' = [fin EXCEPT !.pc[t] = "take", !.holder = t]
    /\ UNCHANGED <<finalizer, tasks, panic>>
    /\ OffThread

\* .take()
finalizer_take(t) ==
    /\ Running
    /\ fin.pc[t] = "take"
    /\ fin' = [fin EXCEPT !.pc[t] = "expect", !.got[t] = finalizer]
    /\ finalizer' = take_leaves(finalizer)
    /\ UNCHANGED <<tasks, panic>>
    /\ OffThread

\* .expect("No StreamFinalizer.")
finalizer_expect(t) ==
    /\ Running
    /\ fin.pc[t] = "expect"
    /\ IF fin.got[t]
       THEN /\ fin' = [fin EXCEPT !.pc[t] = "queue"]
            /\ panic' = panic
       ELSE /\ panic' = "no_finalizer"
            /\ fin' = fin
    /\ UNCHANGED <<finalizer, tasks>>
    /\ OffThread

\* StreamFinalizer::finalize: queue the teardown task on the stream's
\* DOM manipulation task source.
StreamFinalizer_finalize(t) ==
    /\ Running
    /\ fin.pc[t] = "queue"
    /\ tasks' = tasks + 1
    /\ fin' = [fin EXCEPT !.pc[t] = "unlock", !.sent = @ + 1]
    /\ UNCHANGED <<finalizer, panic>>
    /\ OffThread

\* The guard is dropped at the end of the statement.
finalizer_unlock(t) ==
    /\ Running
    /\ fin.pc[t] = "unlock"
    /\ fin' = [fin EXCEPT !.pc[t] = "done", !.holder = 0]
    /\ UNCHANGED <<finalizer, tasks, panic>>
    /\ OffThread

\* The queued task runs on the owning thread: stream.finalize().
reject_promise ==
    /\ Running
    /\ tasks > 0
    /\ tasks' = tasks - 1
    /\ fin' = [fin EXCEPT !.ran = @ + 1]
    /\ last' = Op("stream_finalize", <<>>, 0, TRUE, "ok", 0, NoSignal, FALSE)
    /\ UNCHANGED <<buffer, closed, finalizer, has_reader, js_reader, js,
                   panic, input, written, read_started, body, tee>>

NextFinalize ==
    \/ \E t \in Threads : finalize_trap(t)
    \/ \E t \in Threads : finalizer_lock(t)
    \/ \E t \in Threads : finalizer_take(t)
    \/ \E t \in Threads : finalizer_expect(t)
    \/ \E t \in Threads : StreamFinalizer_finalize(t)
    \/ \E t \in Threads : finalizer_unlock(t)
    \/ reject_promise
    \/ \E chunk \in Chunks : enqueue_native(chunk) /\ StreamOnly
    \/ \E ok \in BOOLEAN : close_native(ok) /\ StreamOnly
    \/ start_reading /\ StreamOnly
    \/ stop_reading /\ StreamOnly

SpecFinalize == Init /\ [][NextFinalize]_vars

----------------------------------------------------------------------------
(* teereadrequest.rs: the read request of a tee, between the stream that
   is teed and the two branches. *)

\* ReadableStreamDefaultController::enqueue on a branch: refused unless
\* the branch is readable.
controller_enqueue(b, chunk) ==
    IF b.state = "readable" THEN [b EXCEPT !.queue = Append(@, chunk)] ELSE b

\* ReadableStreamDefaultController::close on a branch.
controller_close(b) ==
    IF b.state = "readable" THEN [b EXCEPT !.state = "closed"] ELSE b

\* ReadableStreamDefaultController::error on a branch.
controller_error(b) ==
    IF b.state = "readable" THEN [b EXCEPT !.state = "errored"] ELSE b

\* The step that is running makes the call, or the flag write, e.
Log(t, e) == [t EXCEPT !.log = Append(@, e)]

\* The positions of e among the calls and flag writes of a step.
At(log, e) == {i \in DOMAIN log : log[i] = e}

\* TeeUnderlyingSource::pull_algorithm: a pull while a read is in flight
\* is deferred; otherwise one read of the teed stream is issued.
TeeUnderlyingSource_pull_algorithm(t) ==
    IF t.reading
    THEN [Log(t, "pull") EXCEPT !.read_again = TRUE]
    ELSE [Log(Log(t, "pull"), "read") EXCEPT !.reading = TRUE,
                                             !.reads = @ + 1]

\* TeeReadRequest::pull_algorithm
pull_algorithm(t) == TeeUnderlyingSource_pull_algorithm(t)

stream_cancel_not_forwarded(t) == t

\* TeeReadRequest::stream_cancel
stream_cancel(t) ==
    IF t.up = "readable" THEN [Log(t, "cancel") EXCEPT !.up = "canceled"]
    ELSE Log(t, "cancel")

\* branch_1_default_controller_error
branch_1_default_controller_error(t) ==
    [Log(t, "error_1") EXCEPT !.b1 = controller_error(@)]

\* branch_2_default_controller_error
branch_2_default_controller_error(t) ==
    [Log(t, "error_2") EXCEPT !.b2 = controller_error(@)]

\* branch_1_default_controller_close
branch_1_default_controller_close(t) ==
    [Log(t, "close_1") EXCEPT !.b1 = controller_close(@)]

\* branch_2_default_controller_close
branch_2_default_controller_close(t) ==
    [Log(t, "close_2") EXCEPT !.b2 = controller_close(@)]

\* self.cancel_promise.resolve_native(&())
cancel_promise_resolve_native(t) ==
    [Log(t, "resolve") EXCEPT !.cancel_promise = "resolved",
                              !.resolves = Min(@ + 1, 2)]

chunk_steps_enter_clears_reading(t) ==
    [Log(t, "read_again=false") EXCEPT !.read_again = FALSE,
                                       !.reading = FALSE]

\* chunk_steps: self.read_again.set(false)
chunk_steps_enter(t) ==
    [Log(t, "read_again=false") EXCEPT !.read_again = FALSE]

\* chunk_steps: !self.canceled_2.get() && self.clone_for_branch_2.get()
chunk_steps_clones(t) == ~t.canceled_2 /\ t.clone_for_branch_2

\* chunk_steps: the branch taken when structuredclone::read fails.
chunk_steps_clone_failed(t) ==
    stream_cancel(
        branch_2_default_controller_error(
            branch_1_default_controller_error(t)))

\* branch_1_default_controller_enqueue; pull: the branch's controller
\* calls the pull algorithm from within the enqueue.
branch_1_default_controller_enqueue(t, chunk, pull) ==
    LET t1 == [Log(t, "enqueue_1") EXCEPT
                  !.b1 = controller_enqueue(@, chunk)]
    IN  IF pull /\ t.b1.state = "readable" THEN pull_algorithm(t1) ELSE t1

branch_2_default_controller_enqueue_into_1(t, chunk, pull) ==
    LET t1 == [Log(t, "enqueue_2") EXCEPT
                  !.b1 = controller_enqueue(@, chunk)]
    IN  IF pull /\ t.b2.state = "readable" THEN pull_algorithm(t1) ELSE t1

\* branch_2_default_controller_enqueue
branch_2_default_controller_enqueue(t, chunk, pull) ==
    LET t1 == [Log(t, "enqueue_2") EXCEPT
                  !.b2 = controller_enqueue(@, chunk)]
    IN  IF pull /\ t.b2.state = "readable" THEN pull_algorithm(t1) ELSE t1

chunk_steps_branch_1_always(t, chunk, pull) ==
    branch_1_default_controller_enqueue(t, chunk, pull)

\* chunk_steps: if !self.canceled_1.get() { branch_1 enqueue }
chunk_steps_branch_1(t, chunk, pull) ==
    IF ~t.canceled_1 THEN branch_1_default_controller_enqueue(t, chunk, pull)
    ELSE t

chunk_steps_branch_2_reading_cleared(t, chunk, pull) ==
    LET t0 == [Log(t, "reading=false") EXCEPT !.reading = FALSE]
    IN  IF ~t0.canceled_2
        THEN branch_2_default_controller_enqueue(t0, chunk, pull)
        ELSE t0

\* chunk_steps: if !self.canceled_2.get() { branch_2 enqueue }
chunk_steps_branch_2(t, chunk, pull) ==
    IF ~t.canceled_2 THEN branch_2_default_controller_enqueue(t, chunk, pull)
    ELSE t

chunk_steps_exit_never(t) == t

\* chunk_steps: if self.read_again.get() { self.pull_algorithm() }
chunk_steps_exit(t) == IF t.read_again THEN pull_algorithm(t) ELSE t

\* The outcomes of cloning a chunk: structuredclone::write fails,
\* structuredclone::read fails, or the chunk is cloned.
CloneResults == {"write_failed", "read_failed", "cloned"}

\* chunk_steps: structuredclone::write(..).unwrap() panics.
chunk_steps_panics(t, clone) ==
    chunk_steps_clones(chunk_steps_enter(t)) /\ clone = "write_failed"

\* TeeReadRequest::chunk_steps; clone: the outcome of cloning, if the
\* chunk is cloned; pull1, pull2: the enqueue into the branch re-enters
\* the pull algorithm.
chunk_steps(t, chunk, clone, pull1, pull2) ==
    LET t0 == chunk_steps_enter(t)
    IN  IF chunk_steps_panics(t, clone)
        THEN t0
        ELSE IF chunk_steps_clones(t0) /\ clone = "read_failed"
        THEN chunk_steps_clone_failed(t0)
        ELSE LET t1 == chunk_steps_branch_1(t0, chunk, pull1)
                 t2 == chunk_steps_branch_2(t1, chunk, pull2)
                 t3 == [Log(t2, "reading=false") EXCEPT !.reading = FALSE]
             IN  chunk_steps_exit(t3)

close_steps_branch_2_always(t) == branch_2_default_controller_close(t)

\* close_steps: if !self.canceled_1.get() { branch_1 close }
close_steps_branch_1(t) ==
    IF ~t.canceled_1 THEN branch_1_default_controller_close(t) ELSE t

\* close_steps: if !self.canceled_2.get() { branch_2 close }
close_steps_branch_2(t) ==
    IF ~t.canceled_2 THEN branch_2_default_controller_close(t) ELSE t

close_steps_resolves_always(t) == TRUE

close_steps_resolves_if_both(t) == ~t.canceled_1 /\ ~t.canceled_2

\* close_steps: !self.canceled_1.get() || !self.canceled_2.get()
close_steps_resolves(t) == ~t.canceled_1 \/ ~t.canceled_2

\* TeeReadRequest::close_steps
close_steps(t) ==
    LET t0 == [Log(t, "reading=false") EXCEPT !.reading = FALSE]
        t1 == close_steps_branch_1(t0)
        t2 == close_steps_branch_2(t1)
    IN  IF close_steps_resolves(t2)
        THEN cancel_promise_resolve_native(t2)
        ELSE t2

error_steps_keeps_reading(t) == t

error_steps_errors_branches(t) ==
    branch_2_default_controller_error(
        branch_1_default_controller_error(
            [Log(t, "reading=false") EXCEPT !.reading = FALSE]))

\* TeeReadRequest::error_steps
error_steps(t) == [Log(t, "reading=false") EXCEPT !.reading = FALSE]

\* TeeUnderlyingSource::cancel_algorithm for branch k: mark the branch
\* canceled; once both are, cancel the teed stream and resolve the promise.
cancel_algorithm(t, k) ==
    LET t1 == IF k = 1 THEN [t EXCEPT !.canceled_1 = TRUE]
              ELSE [t EXCEPT !.canceled_2 = TRUE]
    IN  IF t1.canceled_1 /\ t1.canceled_2
        THEN cancel_promise_resolve_native(stream_cancel(t1))
        ELSE t1

\* The step has run: the record of its calls goes to the history.
Ran(t) == [t EXCEPT !.log = <<>>]

\* The history of a step of the tee: as Op, with the calls and the flag
\* writes the step made.
TeeOp(op, chunk, n, ok, ret, log) ==
    [op |-> op, chunk |-> chunk, n |-> n, ok |-> ok, ret |-> ret,
     nbytes |-> 0, sig |-> NoSignal, closeCall |-> FALSE, log |-> log]

\* The chunks of the teed stream whose chunk steps have run, in the order
\* the stream delivered them.
Delivered(t) == [i \in 1..(t.next - 1 - Len(t.micro)) |-> i]

\* The reads of the teed stream in flight: issued, and their chunk, close
\* or error steps not yet run.
InFlight(t) == t.reads + Len(t.micro)

\* A step of the tee leaves the external-source stream alone.
TeeOnly ==
    UNCHANGED <<buffer, closed, finalizer, tasks, has_reader, js_reader, js,
                input, written, read_started, body, fin>>

\* Branch k's controller calls the pull algorithm.
tee_pull(k) ==
    /\ Running
    /\ IF k = 1 THEN ~tee.canceled_1 /\ tee.b1.state = "readable"
                ELSE ~tee.canceled_2 /\ tee.b2.state = "readable"
    /\ LET t == pull_algorithm(tee)
       IN  /\ tee' = Ran(t)
           /\ last' = TeeOp("tee_pull", <<>>, t.reads - tee.reads, TRUE,
                            "ok", t.log)
    /\ InFlight(tee') <= MaxInFlight
    /\ panic' = panic
    /\ TeeOnly

\* A read of the teed stream resolves with a chunk:
\* TeeReadRequest::enqueue_chunk_steps queues the chunk steps.
enqueue_chunk_steps ==
    /\ Running
    /\ tee.reads > 0
    /\ tee.up = "readable"
    /\ tee.next <= MaxChunks
    /\ tee' = [tee EXCEPT !.reads = @ - 1, !.micro = Append(@, tee.next),
                          !.next = @ + 1]
    /\ last' = TeeOp("tee_chunk", <<tee.next>>, 0, TRUE, "ok", <<>>)
    /\ panic' = panic
    /\ TeeOnly

\* TeeReadRequestMicrotask::microtask_chunk_steps
microtask_chunk_steps(clone, pull1, pull2) ==
    /\ Running
    /\ tee.micro # <<>>
    /\ panic' = IF chunk_steps_panics(tee, clone) THEN "clone_write"
                ELSE panic
    /\ LET t == chunk_steps([tee EXCEPT !.micro = Tail(@)], Head(tee.micro),
                            clone, pull1, pull2)
       IN  /\ tee' = Ran(t)
           /\ last' = TeeOp("tee_chunk_steps", <<Head(tee.micro)>>,
                            t.reads - tee.reads, clone = "cloned",
                            IF panic' = "none" THEN "ok" ELSE "panic", t.log)
    /\ InFlight(tee') <= MaxInFlight
    /\ TeeOnly

\* The teed stream is closed, or was canceled: a read in flight gets the
\* close steps.
tee_close_steps ==
    /\ Running
    /\ tee.reads > 0
    /\ tee.up \in {"readable", "closed", "canceled"}
    /\ LET t == close_steps([tee EXCEPT
                                !.reads = @ - 1,
                                !.up = IF @ = "readable" THEN "closed"
                                       ELSE @])
       IN  /\ tee' = Ran(t)
           /\ last' = TeeOp("tee_close_steps", <<>>, 0, TRUE, "ok", t.log)
    /\ panic' = panic
    /\ TeeOnly

\* The teed stream is errored: a read in flight gets the error steps.
tee_error_steps ==
    /\ Running
    /\ tee.reads > 0
    /\ tee.up \in {"readable", "errored"}
    /\ LET t == error_steps([tee EXCEPT !.reads = @ - 1, !.up = "errored"])
       IN  /\ tee' = Ran(t)
           /\ last' = TeeOp("tee_error_steps", <<>>, 0, TRUE, "ok", t.log)
    /\ panic' = panic
    /\ TeeOnly

\* Branch k, which is readable, is canceled: its cancel algorithm runs.
tee_cancel(k) ==
    /\ Running
    /\ IF k = 1 THEN ~tee.canceled_1 /\ tee.b1.state = "readable"
                ELSE ~tee.canceled_2 /\ tee.b2.state = "readable"
    /\ LET t == cancel_algorithm(tee, k)
       IN  /\ tee' = Ran(t)
           /\ last' = TeeOp("tee_cancel", <<k>>, 0, TRUE, "ok", t.log)
    /\ panic' = panic
    /\ TeeOnly

InitTee == InitStream /\ \E clone \in BOOLEAN : tee = TeeNew(clone)

NextTee ==
    \/ \E k \in {1, 2} : tee_pull(k)
    \/ enqueue_chunk_steps
    \/ \E clone \in CloneResults, pull1, pull2 \in BOOLEAN :
           microtask_chunk_steps(clone, pull1, pull2)
    \/ tee_close_steps
    \/ tee_error_steps
    \/ \E k \in {1, 2} : tee_cancel(k)

SpecTee == InitTee /\ [][NextTee]_vars

----------------------------------------------------------------------------
(* Properties *)

\* C1: buffer drain is FIFO.  After a run of enqueue calls followed by
\* write_into_buffer calls that drained the whole buffer, the bytes written
\* out, concatenated, are the seed followed by the enqueued chunks in order.
C1_FifoDrain ==
    (panic = "none" /\ buffer = <<>>) => written = input

\* C2: the underflow assertion of write_into_buffer is unreachable: the
\* count the consumer holds as available never exceeds the buffer length,
\* and no write request underflows.
C2_NoUnderflow ==
    /\ panic # "underflow"
    /\ js.state = "readable" => js.available <= Len(buffer)

\* C3: pull on a controller that is not closed and whose buffer is not
\* empty signals the total buffered length, whatever desired_size is.
C3_PullSignalsBufferLength ==
    [][(last'.op = "pull" /\ ~closed /\ Len(buffer) > 0)
          => last'.sig = Len(buffer)]_vars

\* C4: enqueue appends the chunk at the tail of the buffer, the bytes
\* already buffered keeping their positions before it, and signals the
\* total buffered length after the append.
C4_EnqueueAppendsAtTail ==
    [][last'.op = "enqueue"
          => /\ buffer' = buffer \o last'.chunk
             /\ last'.sig = Len(buffer')]_vars

\* C5: write_into_buffer with length <= buffer length removes exactly
\* length bytes and reports bytes_written = length; with length > buffer
\* length it fails the assertion, reports no write and leaves the buffer
\* as it was.
C5_WriteExactOrAssert ==
    [][last'.op = "write"
          => IF last'.n <= Len(buffer)
             THEN /\ panic' = "none"
                  /\ last'.ret = "ok"
                  /\ last'.nbytes = last'.n
                  /\ Len(buffer') = Len(buffer) - last'.n
                  /\ Len(written') = Len(written) + last'.n
             ELSE /\ panic' = "underflow"
                  /\ last'.ret = "panic"
                  /\ last'.nbytes = 0
                  /\ buffer' = buffer
                  /\ written' = written]_vars

\* C5 witness: after a write that succeeded and left bytes in the buffer,
\* a write asking for more than the buffer holds failed the assertion.
C5_Witness ==
    /\ last.op = "write"
    /\ last.ret = "panic"
    /\ panic = "underflow"
    /\ Len(written) > 0
    /\ Len(buffer) > 0
    /\ last.n > Len(buffer)

\* C6: the closed flag is false at construction and, once true, stays true
\* over every operation.
C6_ClosedMonotone ==
    /\ (last.op = "new" => ~closed)
    /\ [][closed => closed']_vars

\* C6 witness: the controller was closed and then enqueued into; the flag
\* is still true.
C6_Witness ==
    /\ closed
    /\ last.op = "enqueue"
    /\ js.state = "closed"

\* C7: enqueue on a closed controller panics, and neither appends to the
\* buffer nor signals availability.
C7_EnqueueAfterClosePanics ==
    [][(last'.op = "enqueue" /\ closed)
          => /\ panic' # "none"
             /\ buffer' = buffer
             /\ last'.sig = NoSignal]_vars

\* C8: close on a controller that is already closed raises no error, keeps
\* closed true and the buffer unchanged and signals nothing; over any run
\* ReadableStreamClose is performed at most once.
C8_CloseIdempotent ==
    /\ [](js.closes <= 1)
    /\ [][(last'.op = "close" /\ closed)
             => /\ closed'
                /\ buffer' = buffer
                /\ panic' = "none"
                /\ last'.ret = "ok"
                /\ last'.sig = NoSignal
                /\ js'.available = js.available
                /\ (js.state # "readable" => js' = js)]_vars

\* C8 witness: close was called on a closed controller whose stream had
\* already been closed; nothing was closed again.
C8_Witness ==
    /\ last.op = "close"
    /\ ~last.closeCall
    /\ closed
    /\ js.state = "closed"
    /\ js.closes = 1
    /\ Len(buffer) > 0

\* C9: close sets closed and closes the stream exactly when the stream is
\* found readable; a pull on a closed controller does the same close
\* attempt and nothing else: it never signals availability and leaves the
\* buffer alone, whatever the buffer holds.
C9_DeferredClose ==
    [][/\ last'.op = "close"
          => /\ closed'
             /\ last'.closeCall = (last'.ok /\ js.state = "readable")
             /\ js'.state = IF last'.closeCall THEN "closed" ELSE js.state
       /\ (last'.op = "pull" /\ closed)
          => /\ closed'
             /\ last'.closeCall = (last'.ok /\ js.state = "readable")
             /\ js'.state = IF last'.closeCall THEN "closed" ELSE js.state
             /\ last'.sig = NoSignal
             /\ js'.available = js.available
             /\ buffer' = buffer]_vars

\* C9 witness: a pull on a closed controller with bytes still buffered
\* performed the close that close itself had not performed.
C9_Witness ==
    /\ last.op = "pull"
    /\ last.closeCall
    /\ closed
    /\ js.state = "closed"
    /\ Len(buffer) > 0

\* C10: start_reading on a stream that holds a native reader fails and
\* leaves has_reader, the reader and the stream as they were; a reader is
\* acquired only while none is held.
C10_NoDoubleLock ==
    [][/\ (last'.op = "start_reading" /\ has_reader)
          => /\ last'.ret = "err"
             /\ has_reader'
             /\ js_reader' = js_reader
             /\ js' = js
       /\ js_reader' # js_reader => (~has_reader /\ ~js.locked)]_vars

\* C10 witness: a second start_reading was refused while the first reader
\* is still held.
C10_Witness ==
    /\ last.op = "start_reading"
    /\ last.ret = "err"
    /\ has_reader
    /\ js_reader = 1

\* C11: start_reading fails whenever the stream is locked or disturbed,
\* natively or as the engine reports it (a script reader, a script read),
\* and then changes nothing; it succeeds, acquiring a reader and setting
\* has_reader, only when the stream is neither.  has_reader is set by
\* nothing else, and a native reader is never acquired once any read was
\* issued: one native reader at most ever reads the stream.
C11_StartReadingRefusal ==
    [][/\ last'.op = "start_reading"
          => IF has_reader \/ js.locked \/ js.disturbed
             THEN /\ last'.ret = "err"
                  /\ has_reader' = has_reader
                  /\ js_reader' = js_reader
                  /\ js' = js
             ELSE /\ last'.ret = "ok"
                  /\ has_reader'
                  /\ js'.locked
                  /\ js_reader' # js_reader
       /\ (has_reader' /\ ~has_reader) => last'.op = "start_reading"
       /\ js_reader' # js_reader => read_started = {}]_vars

\* C11 witness: a stream that was read natively and then released, so that
\* it is unlocked, refused start_reading.
C11_Witness ==
    /\ last.op = "start_reading"
    /\ last.ret = "err"
    /\ ~has_reader
    /\ ~js.locked
    /\ js.disturbed
    /\ "native" \in read_started
    /\ js_reader = 1

\* C12: once read_a_chunk has issued a read, is_disturbed is true in every
\* later state, stop_reading included.
C12_DisturbedMonotone ==
    "native" \in read_started => is_disturbed

\* C12 witness: the stream was read natively and its reader released by
\* stop_reading; it is unlocked and still disturbed.
C12_Witness ==
    /\ "native" \in read_started
    /\ last.op = "stop_reading"
    /\ ~has_reader
    /\ ~is_locked
    /\ is_disturbed

\* C13: read_a_chunk without has_reader panics and issues no read against
\* the engine stream; with has_reader each call issues exactly one read.
C13_ReadNeedsReader ==
    [][last'.op = "read_a_chunk"
          => IF has_reader
             THEN /\ panic' = "none"
                  /\ last'.ret = "ok"
                  /\ last'.n = 1
                  /\ js' = ReadableStreamDefaultReaderRead(js)
                  /\ js'.pending =
                        js.pending + (IF js.state = "readable" THEN 1 ELSE 0)
                  /\ "native" \in read_started'
             ELSE /\ panic' = "no_reader"
                  /\ last'.ret = "panic"
                  /\ last'.n = 0
                  /\ js' = js
                  /\ read_started' = read_started]_vars

\* C13 witness: after a read and stop_reading, read_a_chunk was called
\* again and panicked.
C13_Witness ==
    /\ last.op = "read_a_chunk"
    /\ panic = "no_reader"
    /\ ~has_reader
    /\ js_reader = 1
    /\ read_started = {"native"}

\* C14: is_disturbed is true exactly when at least one read was issued,
\* natively or by script; a stream whose reader was acquired and that was
\* not read is locked and not disturbed.
C14_DisturbedIffRead ==
    is_disturbed <=> read_started # {}

\* C15: at most one read issued through read_a_chunk is outstanding at any
\* time, whatever Chunk requests and consume_body calls are made.
C15_SingleInFlightRead ==
    Cardinality(Outstanding(body.reads)) <= 1

\* C16: the transmit path and the consume path never both issue reads
\* against the stream.
C16_TransmitConsumeExclusive ==
    body.issued # {"transmit", "consume"}

\* C17: consume_body on an object whose body is used or whose stream is
\* locked returns a rejected promise, acquires no reader, issues no read
\* and leaves the lock state and the engine stream as they were.
C17_ConsumeRefused ==
    [][(last'.op = "consume_body" /\ (get_body_used \/ body_is_locked))
          => /\ last'.ret = "rejected"
             /\ last'.n = 0
             /\ panic' = "none"
             /\ has_reader' = has_reader
             /\ js_reader' = js_reader
             /\ js' = js
             /\ read_started' = read_started
             /\ body' = body]_vars

\* C17 witness: consume_body was refused on a stream the transmit path
\* holds locked with a read outstanding.
C17_Witness ==
    /\ last.op = "consume_body"
    /\ last.ret = "rejected"
    /\ has_reader
    /\ body.issued = {"transmit"}
    /\ Cardinality(Outstanding(body.reads)) = 1

\* C18: the finalizer is consumed by take: over any run at most one
\* teardown task is ever queued and run; a finalize call that finds the
\* finalizer taken gets no further than its expect, where it panics
\* without queueing anything.
C18_FinalizeOnce ==
    /\ [](fin.sent <= 1 /\ fin.ran <= fin.sent)
    /\ [][/\ \A t \in Threads :
                (fin.pc[t] = "expect" /\ fin'.pc[t] # "expect")
                    => fin.got[t]
          /\ tasks' > tasks
                => \E t \in Threads : fin.got[t] /\ fin.pc[t] = "queue"
          /\ panic' # panic
                => /\ panic' = "no_finalizer"
                   /\ \E t \in Threads :
                         fin.pc[t] = "expect" /\ ~fin.got[t]
                   /\ tasks' = tasks
                   /\ fin' = fin]_vars

\* C18 witness: the first finalize queued the teardown, the teardown ran,
\* and a second finalize panicked.
C18_Witness ==
    /\ panic = "no_finalizer"
    /\ fin.sent = 1
    /\ fin.ran = 1
    /\ tasks = 0
    /\ \E t \in Threads : fin.pc[t] = "done"

\* C19: a thread running the finalize trap takes the finalizer only while
\* it holds the mutex, and of the threads that performed take exactly one
\* obtained the finalizer; a step of such a thread touches none of
\* buffer, closed, has_reader or the engine stream and never runs the
\* teardown, which runs only as a queued task.
C19_FinalizeHandOff ==
    /\ [](LET took == {t \in Threads :
                          fin.pc[t] \in {"expect", "queue", "unlock", "done"}}
          IN  took # {} => Cardinality({t \in took : fin.got[t]}) = 1)
    /\ [][/\ fin'.pc # fin.pc
              => /\ buffer' = buffer
                 /\ closed' = closed
                 /\ has_reader' = has_reader
                 /\ js' = js
                 /\ fin'.ran = fin.ran
          /\ (finalizer /\ ~finalizer')
              => \E t \in Threads : fin.holder = t /\ fin.pc[t] = "take"
                                     /\ fin'.pc[t] = "expect"
          /\ fin'.ran # fin.ran
              => /\ tasks > 0
                 /\ tasks' = tasks - 1
                 /\ fin'.pc = fin.pc]_vars

\* C19 witness: two threads ran the trap while the owning thread held a
\* reader and had closed the controller; one obtained the finalizer and
\* queued the task, the other found None.
C19_Witness ==
    /\ panic = "no_finalizer"
    /\ has_reader
    /\ closed
    /\ \E t1, t2 \in Threads :
          /\ fin.got[t1]
          /\ fin.pc[t1] = "done"
          /\ ~fin.got[t2]
          /\ fin.pc[t2] = "expect"
          /\ fin.holder = t2

\* C20: at most one read of the teed stream is in flight in every
\* reachable state of the tee; a pull while reading is true issues no read
\* and changes nothing but read_again, which it sets.
C20_TeeSingleRead ==
    /\ [](InFlight(tee) <= 1)
    /\ [][(last'.op = "tee_pull" /\ tee.reading)
             => /\ tee' = [tee EXCEPT !.read_again = TRUE]
                /\ last'.n = 0]_vars

\* C20 witness: a branch pulled while the read of an earlier pull was in
\* flight; the pull was deferred.
C20_Witness ==
    /\ last.op = "tee_pull"
    /\ last.n = 0
    /\ tee.reading
    /\ tee.read_again
    /\ tee.reads = 1
    /\ Len(tee.b1.queue) = 1

C22_FanOut ==
    (~tee.clone_for_branch_2 /\ ~tee.canceled_1 /\ ~tee.canceled_2)
        => /\ tee.b1.queue = Delivered(tee)
           /\ tee.b2.queue = Delivered(tee)

\* C22 witness: three chunks went through the chunk steps, with pulls
\* from the branches in between; the teed stream then closed.
C22_Witness ==
    /\ ~tee.clone_for_branch_2
    /\ ~tee.canceled_1
    /\ ~tee.canceled_2
    /\ tee.b1.queue = <<1, 2, 3>>
    /\ tee.b2.queue = <<1, 2, 3>>
    /\ tee.b1.state = "closed"
    /\ tee.b2.state = "closed"

C24_NothingAfterCancel ==
    [][/\ (tee.canceled_1 /\ last'.op \in {"tee_chunk_steps",
                                           "tee_close_steps"})
            => /\ At(last'.log, "enqueue_1") = {}
               /\ At(last'.log, "close_1") = {}
               /\ tee'.b1.queue = tee.b1.queue
               /\ tee'.b1.state = "closed" => tee.b1.state = "closed"
       /\ (tee.canceled_2 /\ last'.op \in {"tee_chunk_steps",
                                           "tee_close_steps"})
            => /\ At(last'.log, "enqueue_2") = {}
               /\ At(last'.log, "close_2") = {}
               /\ tee'.b2.queue = tee.b2.queue
               /\ tee'.b2.state = "closed" => tee.b2.state = "closed"]_vars

\* C24 witness: the close steps ran with branch 2 canceled after its first
\* chunk; they closed branch 1 only.
C24_Witness ==
    /\ last.op = "tee_close_steps"
    /\ last.log = <<"reading=false", "close_1", "resolve">>
    /\ tee.canceled_2
    /\ ~tee.canceled_1
    /\ tee.b2 = [state |-> "readable", queue |-> <<1>>]
    /\ tee.b1 = [state |-> "closed", queue |-> <<1, 2>>]

\* A step in which branch k is canceled while the other branch is not only
\* sets k's flag; one in which the other branch is canceled already
\* cancels the teed stream and then resolves the cancel promise.
CancelSteps ==
    last'.op = "tee_cancel" =>
        LET k == last'.chunk[1]
            second == IF k = 1 THEN tee.canceled_2 ELSE tee.canceled_1
        IN  /\ ~second =>
                  /\ last'.log = <<>>
                  /\ tee' = IF k = 1 THEN [tee EXCEPT !.canceled_1 = TRUE]
                            ELSE [tee EXCEPT !.canceled_2 = TRUE]
            /\ second =>
                  /\ last'.log = <<"cancel", "resolve">>
                  /\ tee'.canceled_1 /\ tee'.canceled_2
                  /\ tee'.cancel_promise = "resolved"
                  /\ tee'.up # "readable"
                  /\ tee.up = "readable" => tee'.up = "canceled"

C26_CloneFailureAllOrNothing ==
    [][(/\ last'.op = "tee_chunk_steps"
        /\ chunk_steps_clones(tee)
        /\ ~last'.ok)
          => /\ At(last'.log, "error_1") # {}
             /\ At(last'.log, "error_2") # {}
             /\ At(last'.log, "enqueue_1") = {}
             /\ At(last'.log, "enqueue_2") = {}
             /\ tee.b1.state = "readable" => tee'.b1.state = "errored"
             /\ tee.b2.state = "readable" => tee'.b2.state = "errored"
             /\ tee'.b1.queue = tee.b1.queue
             /\ tee'.b2.queue = tee.b2.queue]_vars

\* C27: chunk steps whose clone for branch 2 fails, and which return,
\* have resolved the cancel promise by the time they return.
C27_CloneFailureResolvesPromise ==
    [][(/\ last'.op = "tee_chunk_steps"
        /\ chunk_steps_clones(tee)
        /\ ~last'.ok
        /\ last'.ret = "ok")
          => /\ At(last'.log, "resolve") # {}
             /\ tee'.cancel_promise = "resolved"]_vars

\* C28: the close steps leave reading false, call close on exactly the
\* branches that are not canceled, and resolve the cancel promise exactly
\* when at least one branch is not canceled; a canceled branch and, with
\* both canceled, the promise are left as they were.
C28_CloseSteps ==
    [][last'.op = "tee_close_steps"
          => /\ ~tee'.reading
             /\ At(last'.log, "close_1") # {} <=> ~tee.canceled_1
             /\ At(last'.log, "close_2") # {} <=> ~tee.canceled_2
             /\ At(last'.log, "resolve") # {}
                   <=> (~tee.canceled_1 \/ ~tee.canceled_2)
             /\ tee'.b1 = IF ~tee.canceled_1 THEN controller_close(tee.b1)
                          ELSE tee.b1
             /\ tee'.b2 = IF ~tee.canceled_2 THEN controller_close(tee.b2)
                          ELSE tee.b2
             /\ tee'.cancel_promise =
                    IF ~tee.canceled_1 \/ ~tee.canceled_2 THEN "resolved"
                    ELSE tee.cancel_promise]_vars

\* C28 witness: the close steps ran with branch 1 canceled after one chunk
\* and a read in flight: branch 2 is closed, branch 1 is not, the promise
\* is resolved and reading is false.
C28_Witness ==
    /\ last.op = "tee_close_steps"
    /\ last.log = <<"reading=false", "close_2", "resolve">>
    /\ ~tee.reading
    /\ tee.canceled_1
    /\ tee.b1 = [state |-> "readable", queue |-> <<1>>]
    /\ tee.b2 = [state |-> "closed", queue |-> <<1>>]
    /\ tee.cancel_promise = "resolved"

\* C29: in chunk steps that run to their end, read_again is reset first,
\* branch 1's enqueue comes before branch 2's, reading is cleared once and
\* after both, and no read is issued before that; if the pull algorithm
\* was called from within an enqueue, it only set read_again, and after
\* reading is cleared the pull algorithm is called exactly once and
\* issues one read; otherwise nothing follows the clearing of reading.
C29_ChunkStepOrder ==
    [][(/\ last'.op = "tee_chunk_steps"
        /\ At(last'.log, "reading=false") # {})
          => LET log == last'.log
                 cleared == CHOOSE i \in At(log, "reading=false") : TRUE
                 reentered == {i \in At(log, "pull") : i < cleared}
             IN  /\ At(log, "reading=false") = {cleared}
                 /\ log[1] = "read_again=false"
                 /\ At(log, "read_again=false") = {1}
                 /\ \A i \in At(log, "enqueue_1"), j \in At(log, "enqueue_2") :
                        i < j
                 /\ \A i \in At(log, "enqueue_1") \cup At(log, "enqueue_2") :
                        i < cleared
                 /\ \A i \in At(log, "read") : i > cleared
                 /\ \A i \in reentered :
                        log[i - 1] \in {"enqueue_1", "enqueue_2"}
                 /\ SubSeq(log, cleared + 1, Len(log)) =
                        IF reentered # {} THEN <<"pull", "read">> ELSE <<>>
                 /\ tee'.read_again <=> reentered # {}
                 /\ tee'.reading <=> reentered # {}]_vars

\* C29 witness: chunk steps in which branch 1's controller pulled from
\* within its enqueue, and branch 2's did not.
C29_Witness ==
    /\ last.op = "tee_chunk_steps"
    /\ last.log = <<"read_again=false", "enqueue_1", "pull", "enqueue_2",
                    "reading=false", "pull", "read">>
    /\ tee.read_again
    /\ tee.reading
    /\ tee.reads = 1
    /\ tee.b1.queue = <<1, 2>>
    /\ tee.b2.queue = <<1, 2>>

C31_ErrorStepsOnlyReading ==
    [][last'.op = "tee_error_steps"
          => /\ last'.log = <<"reading=false">>
             /\ ~tee'.reading
             /\ tee'.b1 = tee.b1
             /\ tee'.b2 = tee.b2
             /\ tee'.canceled_1 = tee.canceled_1
             /\ tee'.canceled_2 = tee.canceled_2
             /\ tee'.read_again = tee.read_again
             /\ tee'.cancel_promise = tee.cancel_promise
             /\ tee'.reads = tee.reads - 1
             /\ tee'.micro = tee.micro]_vars

\* C31 witness: the teed stream errored with a read in flight that the
\* chunk steps of the first chunk had issued after a re-entered pull;
\* both branches are still readable and hold the first chunk.
C31_Witness ==
    /\ last.op = "tee_error_steps"
    /\ ~tee.reading
    /\ tee.read_again
    /\ tee.up = "errored"
    /\ tee.reads = 0
    /\ tee.b1 = [state |-> "readable", queue |-> <<1>>]
    /\ tee.b2 = [state |-> "readable", queue |-> <<1>>]
    /\ tee.cancel_promise = "pending"

\* C32: with the producer enqueueing and then closing, the consumer
\* reading one read at a time and the owning thread scheduled fairly, the
\* consumer eventually observes done, and by then every byte seeded or
\* enqueued has been written out to it.
C32_Delivery == <>(ObservedDone /\ Len(written) = Len(input))

\* C33: in every reachable state the bytes written out together with the
\* bytes in the buffer are the bytes seeded and enqueued, each once: the
\* lengths add up and, the bytes being named by their arrival position,
\* every position occurs among them.
C33_ByteConservation ==
    LET held == written \o buffer
    IN  /\ Len(written) + Len(buffer) = Len(input)
        /\ {held[i] : i \in DOMAIN held} = {input[i] : i \in DOMAIN input}
        /\ \A i, j \in DOMAIN held : held[i] = held[j] => i = j

\* C33 witness: a byte was seeded and two were enqueued; one chunk was
\* written out, the controller was closed and a pull followed, with bytes
\* still buffered.
C33_Witness ==
    /\ Len(input) = 3
    /\ Len(written) = 1
    /\ Len(buffer) = 2
    /\ closed
    /\ last.op = "pull"

\* C34: once is_disturbed is true it is true in every later state,
\* whatever start_reading, read_a_chunk and stop_reading calls follow.
C34_DisturbedNeverReverts == [][is_disturbed => is_disturbed']_vars

\* C35 as claimed: in every state reached without a panic, reading is
\* true only if a read of the teed stream is in flight (issued, or its
\* chunk steps queued).
C35_ReadingOnlyInFlight ==
    (panic = "none" /\ tee.reading) => InFlight(tee) >= 1

\* C35 amended: reading is true only if a read is in flight or the clone
\* of a chunk for branch 2 has failed; in that case no branch is readable,
\* so no pull can follow.  Close steps and error steps leave reading
\* false; chunk steps that run to their end leave it true exactly if
\* they issued a read.
C35_ReadingOnlyInFlightOrCloneFailed ==
    /\ []((panic = "none" /\ tee.reading)
             => \/ InFlight(tee) >= 1
                \/ /\ tee.b2.state = "errored"
                   /\ tee.b1.state # "readable")
    /\ [][/\ last'.op \in {"tee_close_steps", "tee_error_steps"}
             => ~tee'.reading
          /\ (/\ last'.op = "tee_chunk_steps"
              /\ At(last'.log, "reading=false") # {})
             => (tee'.reading <=> last'.n = 1)]_vars

\* C35 witness: the second chunk went through the chunk steps with no
\* pull re-entered; no read is in flight and reading is false.
C35_Witness ==
    /\ last.op = "tee_chunk_steps"
    /\ last.n = 0
    /\ ~tee.reading
    /\ InFlight(tee) = 0
    /\ tee.b1.queue = <<1, 2>>
    /\ tee.b2.queue = <<1, 2>>

C37_TransmitNeverPanics ==
    /\ []((body.connected /\ body.promise = "none") => panic # "no_reader")
    /\ [][(body.promise = "none" /\ last'.op = "stop_reading")
             => has_reader]_vars

\* C38: body consumption releases its lock: once the result promise of
\* consume_body is settled, resolved or rejected, the stream has no native
\* reader (only the consume path read the stream).
C38_ConsumeReleasesLock ==
    (body.issued = {"consume"} /\ body.promise \in {"resolved", "rejected"})
        => ~has_reader

====
